---- MODULE Spec2Model ----
(***************************************************************************)
(* GeminiHandler.createMessage (src/src/api/providers/gemini.ts), an async *)
(* generator, run under the retry wrapper that decorates it (@withRetry).  *)
(*                                                                         *)
(* The generator is a state machine whose positions are its awaits and its *)
(* yields.  The backend (the Gemini SDK's generateContentStream, the chunk *)
(* stream and the aggregated response) is the environment: each of its     *)
(* answers is chosen nondeterministically.  The caller consumes the stream *)
(* by the async-generator protocol: next() while it holds control, or      *)
(* return() (cancellation) in place of next().                             *)
(*                                                                         *)
(* The retry wrapper lives in ../retry, which is not among the sources; it *)
(* is modelled from the specification's section 4.3.  So is                *)
(* unescapeGeminiContent (../transform/gemini-format).                     *)
(***************************************************************************)
EXTENDS Integers, Sequences, FiniteSets, TLC

\* ------------------------------------------------------------------ bounds

\* Fragments the backend streams in one attempt, at most.
MaxChunks == 2
\* ------------------------------------------- retry configuration (spec 4.3)

MaxAttempts == 3
BaseDelay == 1
MaxDelay == 3
MaxJitter == 1

\* ------------------------------------------------------------- the backend

\* A chunk's text is a sequence of characters; BS is a backslash, NL a newline.
Fragments == {<<>>, <<"n">>, <<"BS", "n">>, <<"BS">>}

\* A chunk whose text() raises.
BadChunk == <<"BAD">>

\* An optional value is a sequence of length at most one.
None == <<>>
Some(x) == <<x>>

FinishReasons == {"STOP", "LENGTH", "SAFETY", "RECITATION", "OTHER"}

BlockedReasons == {"SAFETY", "RECITATION", "OTHER"}

\* usageMetadata, absent or with each counter absent or present.
UsageMetadatas ==
    {None} \cup
    {Some([promptTokenCount |-> p, candidatesTokenCount |-> c]) :
        p \in {None, Some(5)}, c \in {None, Some(2)}}

\* The aggregated response: candidates?.[0]?.finishReason may be undefined.
Responses ==
    [finishReason : {None} \cup {Some(r) : r \in FinishReasons},
     usageMetadata : UsageMetadatas]

\* What generateContentStream may reject with (retryAfter: the backend's
\* explicit retry-after, if any).
RequestErrors ==
    {[kind |-> k, retryAfter |-> None] :
        k \in {"timeout", "transport", "rateLimited", "serverFault",
               "badRequest", "unauthenticated", "forbidden"}}
    \cup {[kind |-> "rateLimited", retryAfter |-> Some(2)]}

\* How late the backoff timer may fire.
Lateness == {0, 1}

\* What the chunk stream or the response promise may reject with.
TransportErrors ==
    {[kind |-> k, retryAfter |-> None] : k \in {"timeout", "transport"}}

PlainError(k) == [kind |-> k, retryAfter |-> None]

\* ------------------------------------------------------------------ events

TextChunk(t) == [type |-> "text", text |-> t]

Usage(i, o) == [type |-> "usage", inputTokens |-> i, outputTokens |-> o]

ErrorEvent(e) == [type |-> "error", kind |-> e.kind, retryAfter |-> e.retryAfter]

\* value ?? 0
OrZero(opt) == IF opt = None THEN 0 ELSE opt[1]

\* UsageOf, had the two counters been taken for each other.
UsageOfSwapped(r) ==
    IF r.usageMetadata = None
    THEN Usage(0, 0)
    ELSE Usage(OrZero(r.usageMetadata[1].candidatesTokenCount),
               OrZero(r.usageMetadata[1].promptTokenCount))

\* response.usageMetadata?.<counter> ?? 0
UsageOf(r) ==
    IF r.usageMetadata = None
    THEN Usage(0, 0)
    ELSE Usage(OrZero(r.usageMetadata[1].promptTokenCount),
               OrZero(r.usageMetadata[1].candidatesTokenCount))

Unescaped == [c \in {"n", "r", "t", "sq", "dq"} |->
                CASE c = "n" -> "NL"
                  [] c = "r" -> "CR"
                  [] c = "t" -> "TAB"
                  [] OTHER -> c]

\* A backslash followed by n, r, t or a quote stands for that character.
RECURSIVE unescapeGeminiContent(_)
unescapeGeminiContent(s) ==
    IF Len(s) = 0 THEN <<>>
    ELSE IF Len(s) >= 2 /\ s[1] = "BS" /\ s[2] \in DOMAIN Unescaped
    THEN <<Unescaped[s[2]]>> \o unescapeGeminiContent(SubSeq(s, 3, Len(s)))
    ELSE <<s[1]>> \o unescapeGeminiContent(Tail(s))

\* --------------------------------------------------- the handler's options

\* The catalog (geminiModels and geminiDefaultModelId of ../../shared/api, which
\* is not among the sources): an object with one descriptor per model id.
CatalogIds == {"gemini-a", "gemini-b"}

geminiDefaultModelId == "gemini-b"

Descriptor(id) == [kind |-> "descriptor", of |-> id]

\* What an ordinary object inherits from Object.prototype: these are no models,
\* and the operator in finds them as it finds the object's own properties.
ObjectPrototypeKeys == {"toString", "constructor"}

\* key in geminiModels
InGeminiModels(key) == key \in CatalogIds \cup ObjectPrototypeKeys

\* geminiModels[key], for a key that is in it
GeminiModelsAt(key) ==
    IF key \in CatalogIds
    THEN Descriptor(key)
    ELSE [kind |-> "inherited", of |-> key]

\* The truthiness of an optional string: undefined and "" are falsy.
Truthy(opt) == opt # None /\ opt[1] # ""

\* The options a handler may be constructed with.
ApiKeys == {None, Some(""), Some("key")}

ApiModelIds ==
    {None, Some("")} \cup
    {Some(id) : id \in CatalogIds \cup {"unknown-model-xyz"} \cup ObjectPrototypeKeys}

OptionsArgs == [geminiApiKey : ApiKeys, apiModelId : ApiModelIds]

\* GeminiHandler.getModel (lines 115-125)
getModel(opts) ==
    LET modelId == opts.apiModelId
    IN  IF Truthy(modelId) /\ InGeminiModels(modelId[1])
        THEN [id |-> modelId[1], info |-> GeminiModelsAt(modelId[1])]
        ELSE [id |-> geminiDefaultModelId,
              info |-> GeminiModelsAt(geminiDefaultModelId)]

\* ------------------------------------------------------------------- state

VARIABLES
    wstate,      \* the wrapped generator: suspendedStart, running, suspendedYield,
                 \* backoff, completed, threw, returned
    attempt,     \* invocations of createMessage so far
    lastError,   \* the last error the wrapper classified (None: none yet)
    delays,      \* the backoff delays computed so far
    elapsed,     \* time the wrapper has spent waiting
    delivered,   \* the events the caller has received
    cancelledAt, \* where createMessage stood when the caller cancelled
    pc,          \* createMessage: notStarted, request, streaming, yieldText,
                 \* response, yieldUsage, completed, threw, returned
    conn,        \* the backend stream of this attempt: none, open, closed
    inflight,    \* invocations of createMessage that have not ended
    hasError,    \* createMessage's local hasError
    received,    \* the chunks this attempt has taken from the stream
    response,    \* the aggregated response this attempt got (None: not yet)
    events,      \* what this attempt has yielded or raised
    given,       \* the options the constructor is called with
    handler,     \* the GeminiHandler: unconstructed, constructed, threw
    options,     \* this.options (None: never assigned)
    model,       \* what the last call of getModel returned (None: none yet)
    disk,              \* the .clineignore file: None, or Some(its patterns)
    ignoreInstance,    \* this.ignoreInstance: the patterns added to it, in order
    clineIgnoreExists, \* this.clineIgnoreExists
    loads,             \* the runs of loadClineIgnore suspended at an await
    pendingEvents,     \* watcher events not yet delivered
    edits,             \* changes made to the file so far
    initialized,       \* initialize() has been called
    covered,           \* paths reported ignored that the file has matched since
    everIgnored,       \* paths that have been reported ignored
    filterIn,          \* the argument of the last call of filterPaths
    filterOut,         \* what that call returned
    isInstalled,       \* McpMarketplaceCard: isInstalled as last rendered
    isDownloading,     \* its state isDownloading
    rendered,          \* isDownloading as the last render's handlers captured it
    cardLog            \* downloadMcp posts and mcpDownloadDetails messages, in order

createMessageVars ==
    <<wstate, attempt, lastError, delays, elapsed, delivered, cancelledAt,
      pc, conn, inflight, hasError, received, response, events>>

handlerVars == <<given, handler, options, model>>

ignoreVars ==
    <<disk, ignoreInstance, clineIgnoreExists, loads, pendingEvents, edits,
      initialized, covered, everIgnored, filterIn, filterOut>>

cardVars == <<isInstalled, isDownloading, rendered, cardLog>>

vars == <<createMessageVars, handlerVars, ignoreVars, cardVars>>

wrapperVars == <<wstate, attempt, lastError, delays, elapsed, delivered, cancelledAt>>

\* No call of createMessage has been made.
CreateMessageIdle ==
    /\ wstate = "suspendedStart"
    /\ attempt = 0
    /\ lastError = None
    /\ delays = <<>>
    /\ elapsed = 0
    /\ delivered = <<>>
    /\ cancelledAt = "none"
    /\ pc = "notStarted"
    /\ conn = "none"
    /\ inflight = 0
    /\ hasError = FALSE
    /\ received = <<>>
    /\ response = None
    /\ events = <<>>

\* A handler constructed with a key and a model of the catalog.
HandlerReady ==
    /\ given = [geminiApiKey |-> Some("key"), apiModelId |-> Some("gemini-a")]
    /\ handler = "constructed"
    /\ options = Some(given)
    /\ model = None

\* A ClineIgnoreController just constructed (lines 18-24), and no .clineignore.
IgnoreIdle ==
    /\ disk = None
    /\ ignoreInstance = <<>>
    /\ clineIgnoreExists = FALSE
    /\ loads = <<>>
    /\ pendingEvents = 0
    /\ edits = 0
    /\ initialized = FALSE
    /\ covered = {}
    /\ everIgnored = {}
    /\ filterIn = <<>>
    /\ filterOut = <<>>

\* A card just mounted (lines 139-141), its item not installed.
CardIdle ==
    /\ isInstalled = FALSE
    /\ isDownloading = FALSE
    /\ rendered = FALSE
    /\ cardLog = <<>>

Init ==
    /\ CreateMessageIdle
    /\ HandlerReady
    /\ IgnoreIdle
    /\ CardIdle

\* ------------------------------------------------- createMessage, the code

Min2(a, b) == IF a <= b THEN a ELSE b

\* The body up to its first await: a fresh generator's locals, and the request
\* to generateContentStream in flight (lines 48-55).
Invoke ==
    /\ attempt' = attempt + 1
    /\ inflight' = inflight + 1
    /\ pc' = "request"
    /\ conn' = "none"
    /\ hasError' = FALSE
    /\ received' = <<>>
    /\ response' = None
    /\ events' = <<>>

\* An error leaves the try block through the outer catch, which logs and
\* rethrows it (lines 104-107): the generator ends by raising e.
Throw(e) ==
    /\ events' = Append(events, ErrorEvent(e))
    /\ pc' = "threw"
    /\ inflight' = inflight - 1

\* YieldText, had the texts been buffered: a text that follows a text is joined
\* to it.
YieldTextCoalesced(text) ==
    /\ pc' = "yieldText"
    /\ IF Len(events) > 0 /\ events[Len(events)].type = "text"
       THEN events' = [events EXCEPT ![Len(events)] =
                        TextChunk(@.text \o unescapeGeminiContent(text))]
       ELSE events' = Append(events, TextChunk(unescapeGeminiContent(text)))

\* yield { type: "text", text: unescapeGeminiContent(text) } (lines 68-71).
YieldText(text) ==
    /\ events' = Append(events, TextChunk(unescapeGeminiContent(text)))
    /\ pc' = "yieldText"

\* YieldUsage, had the usage been yielded only when the response reports one.
YieldUsageIfReported(r) ==
    IF r.usageMetadata = None
    THEN pc' = "completed" /\ UNCHANGED events
    ELSE events' = Append(events, UsageOf(r)) /\ pc' = "yieldUsage"

\* yield { type: "usage", ... } (lines 99-103).
YieldUsage(r) ==
    /\ events' = Append(events, UsageOf(r))
    /\ pc' = "yieldUsage"

\* await model.generateContentStream(...) resolves (line 55): the stream is open
\* and the for await asks for its first chunk.
RequestOk ==
    /\ wstate = "running" /\ pc = "request"
    /\ conn' = "open"
    /\ pc' = "streaming"
    /\ UNCHANGED <<wrapperVars, inflight, hasError, received, response, events>>

\* await model.generateContentStream(...) rejects (line 55).
RequestFail(e) ==
    /\ wstate = "running" /\ pc = "request"
    /\ Throw(e)
    /\ UNCHANGED <<wrapperVars, conn, hasError, received, response>>

\* The stream gives a chunk whose text() returns f (lines 64-72): a non-empty
\* text is yielded, an empty one is passed over and the next chunk awaited.
StreamChunk(f) ==
    /\ wstate = "running" /\ pc = "streaming" /\ conn = "open"
    /\ Len(received) < MaxChunks
    /\ received' = Append(received, f)
    /\ IF f # <<>>
       THEN YieldText(f)
       ELSE UNCHANGED <<pc, events>>
    /\ UNCHANGED <<wrapperVars, conn, inflight, hasError, response>>

\* StreamBadChunk, had the inner catch not rethrown: the chunk is skipped and
\* the failure reported only when the stream ends.
StreamBadChunkSkipped ==
    /\ wstate = "running" /\ pc = "streaming" /\ conn = "open"
    /\ Len(received) < MaxChunks
    /\ received' = Append(received, BadChunk)
    /\ hasError' = TRUE
    /\ UNCHANGED <<wrapperVars, pc, conn, inflight, response, events>>

\* The stream gives a chunk whose text() raises (lines 66, 73-77): hasError is
\* set and the error rethrown; leaving the for await closes the stream.
StreamBadChunk ==
    /\ wstate = "running" /\ pc = "streaming" /\ conn = "open"
    /\ Len(received) < MaxChunks
    /\ received' = Append(received, BadChunk)
    /\ hasError' = TRUE
    /\ conn' = "closed"
    /\ Throw(PlainError("decode"))
    /\ UNCHANGED <<wrapperVars, response>>

\* The stream itself fails while the next chunk is awaited (line 64).
StreamFault(e) ==
    /\ wstate = "running" /\ pc = "streaming" /\ conn = "open"
    /\ conn' = "closed"
    /\ Throw(e)
    /\ UNCHANGED <<wrapperVars, hasError, received, response>>

\* The stream ends (lines 78-84): with hasError set the generator raises,
\* otherwise it awaits the aggregated response.
StreamEnd ==
    /\ wstate = "running" /\ pc = "streaming" /\ conn = "open"
    /\ conn' = "closed"
    /\ IF hasError
       THEN Throw(PlainError("streamErrors"))
       ELSE pc' = "response" /\ UNCHANGED <<events, inflight>>
    /\ UNCHANGED <<wrapperVars, hasError, received, response>>

\* await result.response gives nothing (lines 84-87).
ResponseMissing ==
    /\ wstate = "running" /\ pc = "response"
    /\ Throw(PlainError("noResponse"))
    /\ UNCHANGED <<wrapperVars, conn, hasError, received, response>>

\* await result.response rejects (line 84).
ResponseFault(e) ==
    /\ wstate = "running" /\ pc = "response"
    /\ Throw(e)
    /\ UNCHANGED <<wrapperVars, conn, hasError, received, response>>

\* Finish, had the usage been yielded before the finish reason is checked.
FinishAfterUsage(r) ==
    IF r.finishReason # None /\ r.finishReason[1] \in BlockedReasons
    THEN /\ events' = events \o <<UsageOf(r),
                                   ErrorEvent(PlainError("blocked"))>>
         /\ pc' = "threw"
         /\ inflight' = inflight - 1
    ELSE YieldUsage(r) /\ UNCHANGED inflight

\* Finish, had the check for OTHER been left out.
FinishWithoutOther(r) ==
    IF r.finishReason = Some("SAFETY") THEN Throw(PlainError("safety"))
    ELSE IF r.finishReason = Some("RECITATION") THEN Throw(PlainError("recitation"))
    ELSE YieldUsage(r) /\ UNCHANGED inflight

\* Finish, had the check for SAFETY been left out.
FinishWithoutSafety(r) ==
    IF r.finishReason = Some("RECITATION") THEN Throw(PlainError("recitation"))
    ELSE IF r.finishReason = Some("OTHER") THEN Throw(PlainError("other"))
    ELSE YieldUsage(r) /\ UNCHANGED inflight

\* The finish reason check and the usage yield (lines 89-103).
Finish(r) ==
    IF r.finishReason = Some("SAFETY") THEN Throw(PlainError("safety"))
    ELSE IF r.finishReason = Some("RECITATION") THEN Throw(PlainError("recitation"))
    ELSE IF r.finishReason = Some("OTHER") THEN Throw(PlainError("other"))
    ELSE YieldUsage(r) /\ UNCHANGED inflight

\* await result.response gives r (lines 84-103).
ResponseArrives(r) ==
    /\ wstate = "running" /\ pc = "response"
    /\ response' = Some(r)
    /\ Finish(r)
    /\ UNCHANGED <<wrapperVars, conn, hasError, received>>

\* next() on the generator suspended at a yield: after a text the for await
\* asks for the next chunk (line 64); after the usage the body ends (line 108).
Resume ==
    /\ pc \in {"yieldText", "yieldUsage"}
    /\ IF pc = "yieldText"
       THEN pc' = "streaming" /\ UNCHANGED inflight
       ELSE pc' = "completed" /\ inflight' = inflight - 1
    /\ UNCHANGED <<conn, hasError, received, response, events>>

\* Return, had the chunk loop not closed the stream it leaves.
ReturnLeavingStreamOpen ==
    /\ pc \in {"yieldText", "yieldUsage"}
    /\ pc' = "returned"
    /\ inflight' = inflight - 1
    /\ UNCHANGED <<conn, hasError, received, response, events>>

\* return() on the generator suspended at a yield: the body is left without
\* running a catch; leaving the for await (lines 64-78) closes the stream.
Return ==
    /\ pc \in {"yieldText", "yieldUsage"}
    /\ pc' = "returned"
    /\ conn' = "closed"
    /\ inflight' = inflight - 1
    /\ UNCHANGED <<hasError, received, response, events>>

\* ---------------------------------------- the retry wrapper (spec 4.3, 7)

\* The classification table.
Classify(kind) ==
    CASE kind \in {"timeout", "transport"} -> "Retryable.Transport"
      [] kind = "rateLimited" -> "Retryable.RateLimited"
      [] kind = "serverFault" -> "Retryable.ServerFault"
      [] kind = "badRequest" -> "Fatal.BadRequest"
      [] kind \in {"unauthenticated", "forbidden"} -> "Fatal.Auth"
      [] kind \in {"safety", "recitation", "other"} -> "Fatal.ContentPolicy"
      [] OTHER -> "Protocol.Corruption"

\* Retryable, had every failure been retried.
RetryableAnyError(kind) == TRUE

Retryable(kind) ==
    Classify(kind) \in {"Retryable.Transport", "Retryable.RateLimited",
                        "Retryable.ServerFault"}

\* ShouldRetry, had the whole call been retried on a failure in mid-stream.
ShouldRetryAfterForward(e, forwarded, n) ==
    /\ Classify(e.kind) \in {"Retryable.Transport", "Retryable.RateLimited",
                              "Retryable.ServerFault"}
    /\ n < MaxAttempts

\* ShouldRetry, had the budget been counted one attempt too far.
ShouldRetryPastBudget(e, forwarded, n) ==
    /\ Classify(e.kind) \in {"Retryable.Transport", "Retryable.RateLimited",
                              "Retryable.ServerFault"}
    /\ forwarded = 0
    /\ n <= MaxAttempts

\* Wait and retry: a retryable failure, nothing forwarded to the caller yet,
\* and attempts left in the budget.
ShouldRetry(e, forwarded, n) ==
    /\ Retryable(e.kind)
    /\ forwarded = 0
    /\ n < MaxAttempts

RECURSIVE Pow2(_)
Pow2(n) == IF n <= 0 THEN 1 ELSE 2 * Pow2(n - 1)

\* The backend's retry-after if it gave one, otherwise base * 2^attempt capped
\* at the maximum, plus jitter; n is the number of the attempt that failed.
BackoffDelays(e, n) ==
    IF e.retryAfter # None
    THEN {e.retryAfter[1]}
    ELSE {Min2(BaseDelay * Pow2(n - 1), MaxDelay) + j : j \in 0..MaxJitter}

\* An event of the running attempt is passed on to the caller, who now holds
\* control.
Forward ==
    /\ wstate = "running" /\ pc \in {"yieldText", "yieldUsage"}
    /\ delivered' = Append(delivered, events[Len(events)])
    /\ wstate' = "suspendedYield"
    /\ UNCHANGED <<attempt, lastError, delays, elapsed, cancelledAt,
                   pc, conn, inflight, hasError, received, response, events>>

\* The attempt ended normally: so does the outer call.
WrapperReturn ==
    /\ wstate = "running" /\ pc = "completed"
    /\ wstate' = "completed"
    /\ UNCHANGED <<attempt, lastError, delays, elapsed, delivered, cancelledAt,
                   pc, conn, inflight, hasError, received, response, events>>

\* The attempt raised e and the wrapper retries: it computes a delay and waits.
Backoff(e, d) ==
    /\ wstate' = "backoff"
    /\ delays' = Append(delays, d)
    /\ UNCHANGED delivered

\* The attempt raised e and the wrapper gives up: e reaches the caller as the
\* terminal error.
Surface(e) ==
    /\ wstate' = "threw"
    /\ delivered' = Append(delivered, ErrorEvent(e))
    /\ UNCHANGED delays

\* The attempt raised: classify, then wait and retry or give up.
WrapperCatch ==
    /\ wstate = "running" /\ pc = "threw"
    /\ LET ev == events[Len(events)]
           e == [kind |-> ev.kind, retryAfter |-> ev.retryAfter]
       IN  /\ lastError' = Some(e)
           /\ IF ShouldRetry(e, Len(delivered), attempt)
              THEN \E d \in BackoffDelays(e, attempt) : Backoff(e, d)
              ELSE Surface(e)
    /\ UNCHANGED <<attempt, elapsed, cancelledAt,
                   pc, conn, inflight, hasError, received, response, events>>

\* Waited, had the retry been made without waiting for the timer.
WaitedNothing(d, late) == 0

\* The time waited when a timer set for d fires late.
Waited(d, late) == d + late

\* The wait is over (the timer fires no earlier than the delay): the next
\* attempt starts.
BackoffElapsed(late) ==
    /\ wstate = "backoff"
    /\ elapsed' = elapsed + Waited(delays[Len(delays)], late)
    /\ wstate' = "running"
    /\ Invoke
    /\ UNCHANGED <<lastError, delays, delivered, cancelledAt>>

\* ----------------------------------------------------------------- caller

\* The first next(): the wrapper makes its first attempt.
CallerStart ==
    /\ wstate = "suspendedStart"
    /\ wstate' = "running"
    /\ Invoke
    /\ UNCHANGED <<lastError, delays, elapsed, delivered, cancelledAt>>

\* next() after an event: the attempt's generator is resumed.
CallerNext ==
    /\ wstate = "suspendedYield"
    /\ wstate' = "running"
    /\ Resume
    /\ UNCHANGED <<attempt, lastError, delays, elapsed, delivered, cancelledAt>>

\* return() before the first next(): nothing was ever started.
CancelBeforeStart ==
    /\ wstate = "suspendedStart"
    /\ wstate' = "returned"
    /\ cancelledAt' = pc
    /\ UNCHANGED <<attempt, lastError, delays, elapsed, delivered,
                   pc, conn, inflight, hasError, received, response, events>>

\* return() after an event (the consumer breaks out of its loop): it is passed
\* on to the attempt's generator.
CancelAtYield ==
    /\ wstate = "suspendedYield"
    /\ wstate' = "returned"
    /\ cancelledAt' = pc
    /\ Return
    /\ UNCHANGED <<attempt, lastError, delays, elapsed, delivered>>

CreateMessageStep ==
    \/ CallerStart
    \/ CallerNext
    \/ CancelBeforeStart
    \/ CancelAtYield
    \/ RequestOk
    \/ \E e \in RequestErrors : RequestFail(e)
    \/ \E f \in Fragments : StreamChunk(f)
    \/ StreamBadChunk
    \/ \E e \in TransportErrors : StreamFault(e)
    \/ StreamEnd
    \/ ResponseMissing
    \/ \E e \in TransportErrors : ResponseFault(e)
    \/ \E r \in Responses : ResponseArrives(r)
    \/ Forward
    \/ WrapperReturn
    \/ WrapperCatch
    \/ \E late \in Lateness : BackoffElapsed(late)

Next == CreateMessageStep /\ UNCHANGED <<handlerVars, ignoreVars, cardVars>>

Spec == Init /\ [][Next]_vars

\* ------------------------------------------- the handler and its options

\* Construct, had the key not been checked.
ConstructUnchecked ==
    /\ handler = "unconstructed"
    /\ options' = Some(given)
    /\ handler' = "constructed"
    /\ UNCHANGED <<createMessageVars, given, model>>

\* new GeminiHandler(given) (lines 30-36): without a key it throws and there is
\* no handler; with one the options are stored.
Construct ==
    /\ handler = "unconstructed"
    /\ IF ~Truthy(given.geminiApiKey)
       THEN handler' = "threw" /\ UNCHANGED options
       ELSE options' = Some(given) /\ handler' = "constructed"
    /\ UNCHANGED <<createMessageVars, given, model>>

\* A call of getModel() on the handler (lines 115-125).
GetModel ==
    /\ handler = "constructed"
    /\ model' = Some(getModel(options[1]))
    /\ UNCHANGED <<createMessageVars, given, handler, options>>

\* A handler is about to be constructed, with any options.
HandlerInit ==
    /\ CreateMessageIdle
    /\ given \in OptionsArgs
    /\ handler = "unconstructed"
    /\ options = None
    /\ model = None
    /\ IgnoreIdle
    /\ CardIdle

\* The handler's life: construction, then calls of getModel and one call of
\* createMessage, which only a handler that exists can take, against a backend
\* that refuses the key, or streams one fragment and stops.
HandlerStep ==
    \/ Construct
    \/ GetModel
    \/ /\ handler = "constructed"
       /\ UNCHANGED handlerVars
       /\ \/ CallerStart
          \/ CallerNext
          \/ CancelAtYield
          \/ RequestOk
          \/ RequestFail(PlainError("unauthenticated"))
          \/ StreamChunk(<<"n">>)
          \/ StreamEnd
          \/ ResponseArrives([finishReason |-> Some("STOP"), usageMetadata |-> None])
          \/ Forward
          \/ WrapperReturn
          \/ WrapperCatch

HandlerNext == HandlerStep /\ UNCHANGED <<ignoreVars, cardVars>>

HandlerSpec == HandlerInit /\ [][HandlerNext]_vars

\* --------------------------------------------------- ClineIgnoreController

\* Runs of loadClineIgnore in progress at once, at most.
MaxLoads == 2
\* Changes made to the .clineignore file, at most.
MaxEdits == 2
\* Paths in one call of filterPaths, at most.
MaxPaths == 2

\* What a .clineignore may hold: its patterns, in order. A pattern is written
\* as the path it matches.
Contents == {<<"a">>, <<"b">>, <<"a", "b">>}

\* The paths validateAccess is asked about: relative, dotted, absolute under
\* cwd, and outside cwd.
Paths == {"a", "./a", "/cwd/b", "c", "../x"}

\* path.relative(cwd, path.resolve(cwd, filePath)).toPosix() (lines 91-92)
RelativePath(p) ==
    CASE p = "./a" -> "a"
      [] p = "/cwd/b" -> "b"
      [] OTHER -> p

\* Ignore.ignores raises on a path that is not relative to cwd (line 98).
IgnoresThrows(rel) == rel = "../x"

\* Ignore.ignores(rel) for an instance holding the patterns inst (line 95).
Ignores(inst, rel) == \E i \in 1..Len(inst) : inst[i] = rel

\* validateAccess, had the catch failed closed.
ValidateAccessFailClosed(p) ==
    IF ~clineIgnoreExists THEN TRUE
    ELSE IF IgnoresThrows(RelativePath(p)) THEN FALSE
    ELSE ~Ignores(ignoreInstance, RelativePath(p))

\* validateAccess, had it not returned early when there is no .clineignore.
ValidateAccessNoEarlyReturn(p) ==
    IF IgnoresThrows(RelativePath(p)) THEN TRUE
    ELSE ~Ignores(ignoreInstance, RelativePath(p))

\* validateAccess(filePath) (lines 84-101)
ValidateAccess(p) ==
    IF ~clineIgnoreExists THEN TRUE
    ELSE IF IgnoresThrows(RelativePath(p)) THEN TRUE
    ELSE ~Ignores(ignoreInstance, RelativePath(p))

\* filterPaths, had the filter kept the paths that are not allowed.
FilterPathsInverted(paths) ==
    LET mapped == [i \in 1..Len(paths) |->
                    [path |-> paths[i], allowed |-> ValidateAccess(paths[i])]]
        Denied(x) == ~x.allowed
        kept == SelectSeq(mapped, Denied)
    IN  [i \in 1..Len(kept) |-> kept[i].path]

\* filterPaths(paths) (lines 108-121): map, filter, map.
FilterPathsOf(paths) ==
    LET mapped == [i \in 1..Len(paths) |->
                    [path |-> paths[i], allowed |-> ValidateAccess(paths[i])]]
        Allowed(x) == x.allowed
        kept == SelectSeq(mapped, Allowed)
    IN  [i \in 1..Len(kept) |-> kept[i].path]

\* The arrays filterPaths is called with: of a path some content ignores, a
\* path none ignores and a path outside cwd, repeated or not.
PathLists == UNION {[1..n -> {"./a", "c", "../x"}] : n \in 0..MaxPaths}

RemoveAt(s, i) == SubSeq(s, 1, i - 1) \o SubSeq(s, i + 1, Len(s))

Run(at, found, content) == [pc |-> at, exists |-> found, content |-> content]

\* loadClineIgnore up to its first await (lines 61-66): the instance is
\* replaced by an empty one and fileExistsAtPath is awaited.
StartLoad ==
    /\ ignoreInstance' = <<>>
    /\ loads' = Append(loads, Run("exists", FALSE, None))

\* initialize() (lines 30-32)
Initialize ==
    /\ ~initialized
    /\ Len(loads) < MaxLoads
    /\ initialized' = TRUE
    /\ StartLoad
    /\ UNCHANGED <<disk, clineIgnoreExists, pendingEvents, edits, filterIn, filterOut>>

\* The file is created, changed or deleted: the watcher will report it.
DiskChange(d) ==
    /\ edits < MaxEdits
    /\ d # disk
    /\ disk' = d
    /\ edits' = edits + 1
    /\ pendingEvents' = pendingEvents + 1
    /\ UNCHANGED <<ignoreInstance, clineIgnoreExists, loads, initialized,
                   filterIn, filterOut>>

\* onDidChange, onDidCreate or onDidDelete fires (lines 43-51): each calls
\* loadClineIgnore and does not wait for it.
WatcherEvent ==
    /\ pendingEvents > 0
    /\ Len(loads) < MaxLoads
    /\ pendingEvents' = pendingEvents - 1
    /\ StartLoad
    /\ UNCHANGED <<disk, clineIgnoreExists, edits, initialized, filterIn, filterOut>>

\* fileExistsAtPath looks at the disk (line 66).
ExistsSampled(i) ==
    /\ i \in 1..Len(loads) /\ loads[i].pc = "exists"
    /\ loads' = [loads EXCEPT ![i] = Run("existsDone", disk # None, None)]
    /\ UNCHANGED <<disk, ignoreInstance, clineIgnoreExists, pendingEvents, edits,
                   initialized, filterIn, filterOut>>

\* The run goes on after await fileExistsAtPath (lines 66-72).
ExistsContinue(i) ==
    /\ i \in 1..Len(loads) /\ loads[i].pc = "existsDone"
    /\ IF loads[i].exists
       THEN /\ clineIgnoreExists' = TRUE
            /\ loads' = [loads EXCEPT ![i] = Run("read", TRUE, None)]
       ELSE /\ clineIgnoreExists' = FALSE
            /\ loads' = RemoveAt(loads, i)
    /\ UNCHANGED <<disk, ignoreInstance, pendingEvents, edits, initialized,
                   filterIn, filterOut>>

\* fs.readFile reads the disk, or fails when the file is gone (line 68).
ReadSampled(i) ==
    /\ i \in 1..Len(loads) /\ loads[i].pc = "read"
    /\ loads' = [loads EXCEPT ![i] = Run("readDone", TRUE, disk)]
    /\ UNCHANGED <<disk, ignoreInstance, clineIgnoreExists, pendingEvents, edits,
                   initialized, filterIn, filterOut>>

\* The run goes on after await fs.readFile (lines 68-76): the content is added
\* to the instance of the moment; a failed read is caught and logged.
ReadContinue(i) ==
    /\ i \in 1..Len(loads) /\ loads[i].pc = "readDone"
    /\ IF loads[i].content # None
       THEN ignoreInstance' = ignoreInstance \o loads[i].content[1]
       ELSE UNCHANGED ignoreInstance
    /\ loads' = RemoveAt(loads, i)
    /\ UNCHANGED <<disk, clineIgnoreExists, pendingEvents, edits, initialized,
                   filterIn, filterOut>>

\* A call of filterPaths(paths) (lines 108-121). The call leaves the controller
\* as it was, so one call is followed in each behaviour, from any state.
FilterPaths(paths) ==
    /\ filterIn = <<>>
    /\ filterIn' = paths
    /\ filterOut' = FilterPathsOf(paths)
    /\ UNCHANGED <<disk, ignoreInstance, clineIgnoreExists, loads, pendingEvents,
                   edits, initialized>>

IgnoreStep ==
    \/ Initialize
    \/ \E d \in {None} \cup {Some(c) : c \in Contents} : DiskChange(d)
    \/ WatcherEvent
    \/ \E i \in 1..MaxLoads : ExistsSampled(i)
    \/ \E i \in 1..MaxLoads : ExistsContinue(i)
    \/ \E i \in 1..MaxLoads : ReadSampled(i)
    \/ \E i \in 1..MaxLoads : ReadContinue(i)
    \/ \E paths \in PathLists : FilterPaths(paths)

\* The file matches the path.
DiskMatches(d, p) == d # None /\ Ignores(d[1], RelativePath(p))

\* What has been observed of validateAccess: the paths it has reported
\* ignored, and among them those the file has matched ever since.
Observe ==
    /\ everIgnored' = everIgnored \cup {p \in Paths : ~ValidateAccess(p)'}
    /\ covered' = {p \in Paths :
                     /\ DiskMatches(disk', p)
                     /\ (p \in covered \/ ~ValidateAccess(p)')}

\* A controller is constructed in a directory with or without a .clineignore.
IgnoreInit ==
    /\ CreateMessageIdle
    /\ HandlerReady
    /\ CardIdle
    /\ disk \in {None} \cup {Some(c) : c \in Contents}
    /\ ignoreInstance = <<>>
    /\ clineIgnoreExists = FALSE
    /\ loads = <<>>
    /\ pendingEvents = 0
    /\ edits = 0
    /\ initialized = FALSE
    /\ covered = {}
    /\ everIgnored = {}
    /\ filterIn = <<>>
    /\ filterOut = <<>>

IgnoreNext ==
    /\ IgnoreStep
    /\ Observe
    /\ UNCHANGED <<createMessageVars, handlerVars, cardVars>>

IgnoreSpec == IgnoreInit /\ [][IgnoreNext]_vars

\* ------------------------------------------------------- McpMarketplaceCard

\* Messages posted and received that the card's log keeps, at most.
MaxCardEvents == 4

\* The types of the messages the window receives.
MessageTypes == {"mcpDownloadDetails", "other"}

Posted == "downloadMcp"

\* The install click handler, had it posted whatever the card shows.
ClickUnguarded ==
    /\ Len(cardLog) < MaxCardEvents
    /\ isDownloading' = TRUE
    /\ rendered' = TRUE
    /\ cardLog' = Append(cardLog, Posted)
    /\ UNCHANGED isInstalled

\* The install click handler (lines 212-221). It reads isInstalled and
\* isDownloading as of the render that made it; its setIsDownloading(true) is
\* rendered before the next event is handled.
Click ==
    IF ~isInstalled /\ ~rendered
    THEN /\ Len(cardLog) < MaxCardEvents
         /\ isDownloading' = TRUE
         /\ rendered' = TRUE
         /\ cardLog' = Append(cardLog, Posted)
         /\ UNCHANGED isInstalled
    ELSE UNCHANGED cardVars

\* handleMessage (lines 144-149): setIsDownloading(false) on
\* mcpDownloadDetails; the card is rendered again later, or at once.
Message(type) ==
    /\ Len(cardLog) < MaxCardEvents
    /\ cardLog' = Append(cardLog, type)
    /\ isDownloading' = IF type = "mcpDownloadDetails" THEN FALSE ELSE isDownloading
    /\ UNCHANGED <<isInstalled, rendered>>

\* The card is rendered with its state of the moment (line 141).
Render ==
    /\ rendered # isDownloading
    /\ rendered' = isDownloading
    /\ UNCHANGED <<isInstalled, isDownloading, cardLog>>

\* The parent renders the card with other installedServers (line 140).
PropsChange ==
    /\ isInstalled' = ~isInstalled
    /\ rendered' = isDownloading
    /\ UNCHANGED <<isDownloading, cardLog>>

\* The card is mounted, its item installed or not (lines 139-141).
CardInit ==
    /\ CreateMessageIdle
    /\ HandlerReady
    /\ IgnoreIdle
    /\ isInstalled \in BOOLEAN
    /\ isDownloading = FALSE
    /\ rendered = FALSE
    /\ cardLog = <<>>

CardStep ==
    \/ Click
    \/ \E type \in MessageTypes : Message(type)
    \/ Render
    \/ PropsChange

CardNext == CardStep /\ UNCHANGED <<createMessageVars, handlerVars, ignoreVars>>

CardSpec == CardInit /\ [][CardNext]_vars

\* ------------------------------------------------------------- properties

Last(s) == s[Len(s)]

HasType(s, t) == \E i \in 1..Len(s) : s[i].type = t

CountType(s, t) == Cardinality({i \in 1..Len(s) : s[i].type = t})

\* Texts only, then the one terminal event of type t, and nothing after it.
EndsWith(s, t) ==
    /\ Len(s) >= 1
    /\ s[Len(s)].type = t
    /\ \A i \in 1..(Len(s) - 1) : s[i].type = "text"

IsTextEvent(e) == e.type = "text"

TextBearing(f) == f # <<>> /\ f # BadChunk

\* One TextChunk per text-bearing chunk of chunks, in their order.
TextChunksFor(chunks) ==
    LET fs == SelectSeq(chunks, TextBearing)
    IN  [i \in 1..Len(fs) |-> TextChunk(unescapeGeminiContent(fs[i]))]

IsPrefix(s, t) == Len(s) <= Len(t) /\ s = SubSeq(t, 1, Len(s))

\* C1: once an event has been forwarded to the caller no further attempt is
\* ever made, and a failure of the attempt after that reaches the caller at
\* once as the terminal error; what the caller holds is what the one attempt
\* yielded, so no text is delivered twice.
C1_NoRetryAfterForward ==
    /\ [](Len(delivered) > 0 =>
            /\ wstate # "backoff"
            /\ IsPrefix(delivered, events))
    /\ [][Len(delivered) > 0 =>
            /\ attempt' = attempt
            /\ (wstate = "running" /\ pc = "threw" =>
                    /\ wstate' = "threw"
                    /\ delivered' = Append(delivered, Last(events)))]_vars

\* Scenario C: a text was forwarded, then the stream dropped; the caller has
\* the text and the transport error, after one attempt.
C1_Witness ==
    /\ wstate = "threw" /\ attempt = 1
    /\ Len(delivered) = 2
    /\ delivered[1].type = "text"
    /\ delivered[2].type = "error" /\ delivered[2].kind = "transport"

\* C2: a failed generation's events are texts and then exactly one Error, the
\* last event, never after a Usage, for the attempt and for what the caller
\* receives; no sequence ever holds both a Usage and an Error.
C2_FailureEndsWithOneError ==
    /\ (pc = "threw" => EndsWith(events, "error") /\ CountType(events, "error") = 1)
    /\ (wstate = "threw" =>
            EndsWith(delivered, "error") /\ CountType(delivered, "error") = 1)
    /\ (HasType(events, "error") => pc = "threw")
    /\ (HasType(delivered, "error") => wstate = "threw")
    /\ ~(HasType(events, "usage") /\ HasType(events, "error"))
    /\ ~(HasType(delivered, "usage") /\ HasType(delivered, "error"))

\* A blocked finish after a text has streamed: the caller has the text and
\* the error.
C2_Witness ==
    /\ wstate = "threw" /\ pc = "threw"
    /\ Len(delivered) >= 2
    /\ response # None /\ response[1].finishReason = Some("SAFETY")

\* C3: a successful generation's events are texts and then exactly one Usage,
\* the last event, for the attempt and for what the caller receives.
C3_SuccessEndsWithOneUsage ==
    /\ (pc \in {"yieldUsage", "completed"} =>
            EndsWith(events, "usage") /\ CountType(events, "usage") = 1)
    /\ (wstate = "completed" =>
            EndsWith(delivered, "usage") /\ CountType(delivered, "usage") = 1)
    /\ (HasType(events, "usage") => EndsWith(events, "usage"))
    /\ (HasType(delivered, "usage") => EndsWith(delivered, "usage"))

\* A completed call that delivered two texts and the usage.
C3_Witness ==
    /\ wstate = "completed" /\ pc = "completed"
    /\ Len(delivered) = 3

AttemptHasUsage == pc \in {"yieldUsage", "completed", "returned"} /\ EndsWith(events, "usage")

BlockKind(reason) ==
    CASE reason = "SAFETY" -> "safety"
      [] reason = "RECITATION" -> "recitation"
      [] OTHER -> "other"

\* C4 as stated: every finish reason other than STOP, LENGTH included, ends
\* the generation with an Error and no Usage.
C4_Original ==
    (response # None /\ response[1].finishReason # None
        /\ response[1].finishReason[1] # "STOP") =>
            /\ pc = "threw"
            /\ EndsWith(events, "error")
            /\ ~HasType(events, "usage")

\* C4, amended: a finish reason of SAFETY, RECITATION or OTHER ends the
\* generation with the Error of that block and no Usage, whether or not text
\* was streamed before; any other finish (STOP, LENGTH, none reported) ends it
\* with a Usage.
C4_BlockedFinishIsError ==
    response # None =>
        IF response[1].finishReason # None
              /\ response[1].finishReason[1] \in BlockedReasons
        THEN /\ pc = "threw"
             /\ EndsWith(events, "error")
             /\ Last(events).kind = BlockKind(response[1].finishReason[1])
             /\ ~HasType(events, "usage")
             /\ SubSeq(events, 1, Len(events) - 1) = TextChunksFor(received)
        ELSE AttemptHasUsage

\* A RECITATION finish after text had streamed.
C4_Witness ==
    /\ response # None /\ response[1].finishReason = Some("RECITATION")
    /\ pc = "threw"
    /\ Len(events) >= 2 /\ events[1].type = "text"

\* C5: a chunk whose decoding raises is the last chunk the attempt takes: the
\* attempt ends with the decode Error, with no Usage, and its texts are those of
\* the chunks before the malformed one.
C5_BadChunkAbortsStream ==
    \A i \in 1..Len(received) :
        received[i] = BadChunk =>
            /\ i = Len(received)
            /\ pc = "threw"
            /\ conn = "closed"
            /\ EndsWith(events, "error")
            /\ Last(events).kind = "decode"
            /\ ~HasType(events, "usage")
            /\ SubSeq(events, 1, Len(events) - 1)
                    = TextChunksFor(SubSeq(received, 1, i - 1))

\* A text, then a malformed chunk: the caller has the text and the error.
C5_Witness ==
    /\ Len(received) = 2 /\ received[2] = BadChunk /\ received[1] # <<>>
    /\ wstate = "threw"
    /\ Len(delivered) = 2

\* C6: the texts an attempt has yielded are, in order, one TextChunk (of the
\* unescaped text) per text-bearing chunk taken from the stream; the caller
\* has them in that order, and after a normal end exactly them and the Usage.
C6_TextInReceiptOrder ==
    /\ SelectSeq(events, IsTextEvent) = TextChunksFor(received)
    /\ IsPrefix(SelectSeq(delivered, IsTextEvent), TextChunksFor(received))
    /\ (wstate = "completed" =>
            delivered = TextChunksFor(received) \o <<UsageOf(response[1])>>)

\* A backslash and an n in two consecutive chunks, delivered as two texts
\* and the usage.
C6_Witness ==
    /\ wstate = "completed"
    /\ received = << <<"BS">>, <<"n">> >>
    /\ Len(delivered) = 3
    /\ delivered[1] = TextChunk(<<"BS">>) /\ delivered[2] = TextChunk(<<"n">>)

FatalClasses == {"Fatal.Auth", "Fatal.BadRequest", "Fatal.ContentPolicy"}

\* C7: an attempt that fails with a fatal classification is never followed by
\* a wait or another attempt: its error reaches the caller at once.
C7_FatalIsImmediate ==
    /\ [](wstate = "backoff" => Classify(lastError[1].kind) \notin FatalClasses)
    /\ [][(wstate = "running" /\ pc = "threw"
            /\ Classify(Last(events).kind) \in FatalClasses) =>
                /\ wstate' = "threw"
                /\ attempt' = attempt
                /\ delays' = delays
                /\ delivered' = Append(delivered, Last(events))]_vars

\* A SAFETY block on the first attempt, nothing forwarded before: the caller
\* has the error alone, with two attempts of the budget unused.
C7_Witness ==
    /\ wstate = "threw" /\ attempt = 1
    /\ Len(delivered) = 1
    /\ delivered[1].type = "error" /\ delivered[1].kind = "safety"

RECURSIVE Sum(_)
Sum(s) == IF Len(s) = 0 THEN 0 ELSE s[1] + Sum(Tail(s))

\* C8: after two retried failures and a success, createMessage was invoked
\* three times, the caller has exactly the third attempt's events, ending
\* with the Usage, and the wrapper has waited at least the two delays.
C8_RetryThenSuccess ==
    (wstate = "completed" /\ Len(delays) = 2) =>
        /\ attempt = 3
        /\ delivered = events
        /\ EndsWith(delivered, "usage")
        /\ elapsed >= delays[1] + delays[2]

\* Two retried failures, then a success that delivered a text and the usage.
C8_Witness ==
    /\ wstate = "completed" /\ attempt = 3
    /\ Len(delays) = 2
    /\ Len(delivered) = 2

\* C9: createMessage is invoked at most MaxAttempts times, each invocation
\* only after the one before has ended; a failure of the last attempt of the
\* budget reaches the caller as the terminal error, which is the last error
\* classified.
C9_AttemptBudget ==
    /\ [](/\ attempt <= MaxAttempts
          /\ inflight <= 1
          /\ Len(delays) < MaxAttempts
          /\ (wstate = "backoff" => attempt < MaxAttempts)
          /\ (wstate = "threw" =>
                /\ Last(delivered).type = "error"
                /\ lastError = Some([kind |-> Last(delivered).kind,
                                     retryAfter |-> Last(delivered).retryAfter])))
    /\ [][/\ (attempt' # attempt => attempt' = attempt + 1 /\ inflight = 0 /\ conn # "open")
          /\ (wstate = "running" /\ pc = "threw" /\ attempt = MaxAttempts =>
                /\ wstate' = "threw"
                /\ delivered' = Append(delivered, Last(events)))]_vars

\* Three retryable failures with nothing forwarded: the caller has the last
\* one as the terminal error.
C9_Witness ==
    /\ wstate = "threw" /\ attempt = MaxAttempts
    /\ Len(delivered) = 1
    /\ Retryable(delivered[1].kind)

C11_SafetyWithNoText ==
    (response # None /\ response[1].finishReason = Some("SAFETY")
        /\ SelectSeq(received, TextBearing) = <<>>) =>
            /\ pc = "threw"
            /\ events = <<ErrorEvent(PlainError("safety"))>>
            /\ Classify(events[1].kind) = "Fatal.ContentPolicy"
            /\ wstate \in {"running", "threw"}
            /\ delivered = (IF wstate = "threw" THEN events ELSE <<>>)

\* Scenario B: no fragment at all, a SAFETY finish, and the caller has the
\* error alone.
C11_Witness ==
    /\ response # None /\ response[1].finishReason = Some("SAFETY")
    /\ received = <<>>
    /\ wstate = "threw"
    /\ Len(delivered) = 1 /\ delivered[1].type = "error"

\* The counter of a response's usage metadata, 0 when it or the metadata is
\* missing.
ReportedCount(r, counter) ==
    IF r.usageMetadata = None THEN 0
    ELSE IF r.usageMetadata[1][counter] = None THEN 0
    ELSE r.usageMetadata[1][counter][1]

\* C12: a response whose finish is not a block is followed by a Usage event
\* with inputTokens the response's promptTokenCount and outputTokens its
\* candidatesTokenCount, each 0 when missing; a completed call has delivered it.
C12_UsageCounts ==
    (response # None /\ ~(response[1].finishReason # None
                            /\ response[1].finishReason[1] \in BlockedReasons)) =>
        /\ EndsWith(events, "usage")
        /\ Last(events).inputTokens = ReportedCount(response[1], "promptTokenCount")
        /\ Last(events).outputTokens = ReportedCount(response[1], "candidatesTokenCount")
        /\ (wstate = "completed" => Last(delivered) = Last(events))

\* A completed call whose response reported candidatesTokenCount only.
C12_Witness ==
    /\ wstate = "completed"
    /\ response[1].usageMetadata # None
    /\ response[1].usageMetadata[1].promptTokenCount = None
    /\ Last(delivered) = Usage(0, 2)


\* C13: getModel returns, for a configured id that is a model of the catalog,
\* that id and its descriptor, and for every other id (absent, empty, unknown)
\* the default id and the default descriptor.
C13_LookupTotal ==
    model # None =>
        LET id == options[1].apiModelId
        IN  IF id # None /\ id[1] \in CatalogIds
            THEN model[1] = [id |-> id[1], info |-> Descriptor(id[1])]
            ELSE model[1] = [id |-> geminiDefaultModelId,
                             info |-> Descriptor(geminiDefaultModelId)]

\* C14: without a key (absent or empty) construction throws and there is never
\* a handler, stored options, a call of createMessage or a backend stream; with
\* a key the stored options are the ones given, and stay so through
\* createMessage and getModel.
C14_ConstructionFailsFast ==
    /\ (handler = "constructed" =>
            Truthy(given.geminiApiKey) /\ options = Some(given))
    /\ (handler = "threw" => ~Truthy(given.geminiApiKey))
    /\ (handler # "constructed" =>
            /\ options = None /\ model = None
            /\ attempt = 0 /\ pc = "notStarted" /\ conn = "none"
            /\ wstate = "suspendedStart")
    /\ (attempt > 0 \/ conn # "none" => Truthy(options[1].geminiApiKey))

\* Construction with an empty key has thrown.
C14_WitnessThrew ==
    /\ handler = "threw" /\ given.geminiApiKey = Some("")


\* No run of loadClineIgnore is in progress and no watcher event is waiting.
Quiescent == loads = <<>> /\ pendingEvents = 0

\* C15: a path that validateAccess has reported ignored, and that the
\* .clineignore on disk has matched ever since, is reported ignored at every
\* moment, a reload in progress included.
C15_NoWindow ==
    \A p \in covered : ~ValidateAccess(p)

\* C16: once every run of loadClineIgnore has finished, the ignore instance
\* holds the patterns of the content on disk, each once, and nothing else.
C16_ExactlyDiskContent ==
    (Quiescent /\ (initialized \/ edits > 0)) =>
        ignoreInstance = IF disk = None THEN <<>> ELSE disk[1]

\* C17: while clineIgnoreExists is false validateAccess returns true for every
\* path, and the step in which a reload completes on finding no file leaves
\* every path reported ignored before accessible.
C17_NoFileAllowsAll ==
    /\ [](~clineIgnoreExists => \A p \in Paths : ValidateAccess(p))
    /\ [][(\E i \in 1..Len(loads) :
              /\ loads[i].pc = "existsDone" /\ ~loads[i].exists
              /\ loads' = RemoveAt(loads, i))
            => \A p \in everIgnored : ValidateAccess(p)']_vars

\* After a deletion and its reload, with nothing in progress, a path that had
\* been reported ignored is accessible.
C17_Witness ==
    /\ Quiescent /\ disk = None /\ edits > 0
    /\ ~clineIgnoreExists
    /\ \E p \in everIgnored : ValidateAccess(p)

RECURSIVE KeepAllowed(_)
\* The paths of ps that validateAccess allows, in order, each as often as in ps.
KeepAllowed(ps) ==
    IF ps = <<>> THEN <<>>
    ELSE (IF ValidateAccess(Head(ps)) THEN <<Head(ps)>> ELSE <<>>)
            \o KeepAllowed(Tail(ps))

\* C18: a call of filterPaths returns the paths of its input that
\* validateAccess allows, in input order and with their multiplicity, none that
\* it denies, and leaves the ignore instance and clineIgnoreExists as they were.
C18_FilterPaths ==
    [][filterIn' # filterIn =>
          /\ filterOut' = KeepAllowed(filterIn')
          /\ \A i \in 1..Len(filterOut') : ValidateAccess(filterOut'[i])
          /\ UNCHANGED <<ignoreInstance, clineIgnoreExists>>]_vars

\* A call with an ignored path, then twice an allowed one, has returned the
\* allowed one twice.
C18_Witness ==
    /\ Len(filterIn) = 2 /\ filterIn[1] = "./a" /\ ~ValidateAccess("./a")
    /\ filterOut = <<filterIn[2]>>

\* C19: validateAccess returns a boolean for every path, and true for every
\* path that resolves outside cwd, whatever patterns are loaded.
C19_OutsideCwdAllowed ==
    \A p \in Paths :
        /\ ValidateAccess(p) \in BOOLEAN
        /\ (IgnoresThrows(RelativePath(p)) => ValidateAccess(p))

\* Patterns are loaded and in force: the matcher is asked about a path
\* outside cwd, and a path inside is denied.
C19_Witness ==
    /\ clineIgnoreExists /\ ignoreInstance # <<>>
    /\ ValidateAccess("../x") /\ ~ValidateAccess("a")


\* The last entry of the card's log that is a posted downloadMcp or a received
\* mcpDownloadDetails, "none" without one.
RECURSIVE LastDownloadEvent(_)
LastDownloadEvent(log) ==
    IF log = <<>> THEN "none"
    ELSE IF Last(log) = "other" THEN LastDownloadEvent(SubSeq(log, 1, Len(log) - 1))
    ELSE Last(log)

\* C20: a downloadMcp is posted only by a click on a card that is not
\* installed and not downloading; two posts have an mcpDownloadDetails between
\* them; isDownloading is true exactly from a post to the next
\* mcpDownloadDetails.
C20_OneDownloadAtATime ==
    /\ [](\A i, j \in 1..Len(cardLog) :
            (i < j /\ cardLog[i] = Posted /\ cardLog[j] = Posted) =>
                \E k \in (i + 1)..(j - 1) : cardLog[k] = "mcpDownloadDetails")
    /\ [](isDownloading <=> LastDownloadEvent(cardLog) = Posted)
    /\ [][(cardLog' # cardLog /\ Last(cardLog') = Posted) =>
              (~isInstalled /\ ~isInstalled' /\ ~isDownloading /\ isDownloading')]_vars

\* A download was posted, answered, and posted again.
C20_Witness ==
    /\ Len(cardLog) >= 3
    /\ cardLog[1] = Posted /\ cardLog[2] = "mcpDownloadDetails" /\ cardLog[3] = Posted
    /\ isDownloading /\ ~isInstalled

====
